---- MODULE Spec2Model ----
(***************************************************************************)
(* Healthy Home Exchange API: the listing lifecycle (create, get, list,    *)
(* search, renew), the expiry sweep and the notification sweep, as a state *)
(* machine over the Listing collection and the process clock.              *)
(*                                                                         *)
(* Time is counted in clock ticks (the code's milliseconds); DAY ticks     *)
(* make a day.  The repository holds two server entry points: the server   *)
(* that validates ids and gates the notification job on the transporter    *)
(* ("server"), and the "Combined Version" ("combined").  A process runs    *)
(* one of them; `variant` says which.                                      *)
(***************************************************************************)
EXTENDS Integers, Sequences, FiniteSets, TLC

VARIABLES
    variant,             \* which server entry point this process runs
    now,                 \* the process clock, Date.now()
    store,               \* the Listing collection: _id -> document
    nextId,              \* the next _id the store assigns
    isTransporterReady,  \* utils/email.js: isTransporterReady && transporter
    rq,                  \* the request in flight: a /renew/:id between its
                         \* awaits, or a list or search request not yet answered
    out,                 \* what the last step sent or logged: a handler's HTTP
                         \* response, or the outcome of a job run
    jobs,                \* the runs of notifyExpiringListings in progress, the
                         \* cron schedule, and a log of the notices sent
    process              \* the process: running or exited, its mongoose
                         \* connection, its HTTP server and the listeners
                         \* waiting for the server's 'close' event

vars == <<variant, now, store, nextId, isTransporterReady, rq, out, jobs, process>>

----------------------------------------------------------------------------
(* Bounds of the model *)

\* clock ticks per day (the code's day is 24 * 60 * 60 * 1000 ms)
DAY == 10

\* how many listings are ever created in one behaviour
MaxListings == 2

\* how many listings the collection holds when it is listed page by page
MaxDocs == 3

\* how long the search queries are that are tried character by character
MaxQueryLen == 2

\* how many runs of the notification sweep are followed at the same time
MaxRuns == 2

\* How many shutdown signals one process is sent
MaxSignals == 2

----------------------------------------------------------------------------
(* Time *)

SIXTY_DAYS == 60 * DAY
SEVEN_DAYS == 7 * DAY
EIGHT_DAYS == 8 * DAY
ONE_DAY == 1 * DAY

\* The instants at which the model samples the clock while it follows a
\* listing to its expiry: process start, a day in its last week, and the
\* edges of its expiry.
LifeInstants ==
    { 0, 1, SIXTY_DAYS - SEVEN_DAYS, SIXTY_DAYS, SIXTY_DAYS + 1 }

\* ... and while it follows a listing through the notification window:
\* process start and the edges of the window.
WindowInstants ==
    { 0, 1,
      SIXTY_DAYS - EIGHT_DAYS - 1, SIXTY_DAYS - EIGHT_DAYS, SIXTY_DAYS - EIGHT_DAYS + 1,
      SIXTY_DAYS - (15 * DAY) \div 2,
      SIXTY_DAYS - SEVEN_DAYS, SIXTY_DAYS - SEVEN_DAYS + 1 }

Instants == LifeInstants \cup WindowInstants

\* A second Date.now() in the same synchronous block as a first one that
\* returned t: the same tick, or the next one.
SecondRead(t) == {t} \cup ({t + 1} \cap Instants)

----------------------------------------------------------------------------
(* Identifiers and documents *)

\* req.params.id: a 24-hex string (the n-th ObjectId; 0 is
\* "000000000000000000000000", which the store never assigns) or a string
\* that is no ObjectId ("not-an-id").
ParamIds ==
    [fmt : {"hex24"}, n : 0..MaxListings] \cup {[fmt |-> "other", n |-> 0]}

\* An id check that lets every string through.
ObjectIdAcceptsAll(p) == TRUE

\* mongoose.Types.ObjectId.isValid(id)
ObjectIdIsValid(p) == p.fmt = "hex24"

NoDate == -1
NoText == << >>

\* The request bodies of POST /listings: a complete one, one that also
\* carries createdAt/expirationDate, and one without the required email.
Bodies ==
    { [name |-> <<"a">>, email |-> <<"e">>, address |-> NoText, location |-> NoText,
       keywords |-> << >>, createdAt |-> NoDate, expirationDate |-> NoDate],
      [name |-> <<"a">>, email |-> <<"e">>, address |-> NoText, location |-> NoText,
       keywords |-> << >>, createdAt |-> 0, expirationDate |-> 0],
      [name |-> <<"a">>, email |-> NoText, address |-> NoText, location |-> NoText,
       keywords |-> << >>, createdAt |-> NoDate, expirationDate |-> NoDate] }

\* A validation that lets the keys through that the schema does not list.
validateKeepsUnknown(body) ==
    IF body.name = NoText \/ body.email = NoText
    THEN [error |-> TRUE, value |-> body]
    ELSE [error |-> FALSE, value |-> body]

\* validate(createListingSchema): name and email are required; keys the
\* schema does not list (createdAt, expirationDate) are stripped.
validate(body) ==
    IF body.name = NoText \/ body.email = NoText
    THEN [error |-> TRUE, value |-> body]
    ELSE [error |-> FALSE,
          value |-> [body EXCEPT !.createdAt = NoDate, !.expirationDate = NoDate]]

\* A schema whose expiry default uses a 30-day window.
listingSchemaShortWindow(value, t1, t2) ==
    [name |-> value.name, email |-> value.email, address |-> value.address,
     location |-> value.location, keywords |-> value.keywords,
     createdAt |-> IF value.createdAt = NoDate THEN t1 ELSE value.createdAt,
     expirationDate |-> IF value.expirationDate = NoDate
                        THEN t2 + 30 * DAY ELSE value.expirationDate]

\* listingSchema: the document Listing.create(value) builds, its two date
\* defaults evaluated in schema order, at clock reads t1 and then t2.
listingSchema(value, t1, t2) ==
    [name |-> value.name, email |-> value.email, address |-> value.address,
     location |-> value.location, keywords |-> value.keywords,
     createdAt |-> IF value.createdAt = NoDate THEN t1 ELSE value.createdAt,
     expirationDate |-> IF value.expirationDate = NoDate
                        THEN t2 + SIXTY_DAYS ELSE value.expirationDate]

NoReq == [phase |-> "none"]
NoOut == [op |-> "none", status |-> 0]

\* A process that has just started: no run in progress; transporter.verify()
\* is pending where getTransporter() is called at startup ("server"); the
\* 01:00 schedule has not fired; no notice was sent and no send failed.
JobsAtStart ==
    [runs |-> << >>, transporter |-> variant = "server",
     verifying |-> variant = "server", fired |-> 0,
     notices |-> << >>, failed |-> {}]

\* A process that serves: mongoose.connect() has resolved and the HTTP
\* server listens; no listener waits for the server's 'close' event.
Serving ==
    [state |-> "running", code |-> 0, mongo |-> "connected",
     server |-> "listening", onClose |-> << >>]

\* A failure that leaves the job and the cron callback as an exception:
\* process.on('uncaughtException') ends the process.
rethrown(proc) == [proc EXCEPT !.state = "exited", !.code = 1]

\* catch (err) { console.error(...) } around the body of a job: the failure
\* is logged and the run ends.
caught(proc) == proc

\* Whether the record o is the log of a job run that failed
failedRun(o) ==
    o.op \in {"deleteExpired", "notify", "notifyDone"} /\ o.outcome = "error"

\* The process after a job run that logged o
afterRun(proc, o) == IF failedRun(o) THEN caught(proc) ELSE proc

----------------------------------------------------------------------------
(* Initial state: the process has just started on an empty collection *)

Init ==
    /\ variant \in {"server", "combined"}
    /\ now = 0
    /\ store = << >>
    /\ nextId = 1
    /\ isTransporterReady = FALSE
    /\ jobs = JobsAtStart
    /\ process = Serving
    /\ rq = NoReq
    /\ out = NoOut

----------------------------------------------------------------------------
(* The clock *)

Tick ==
    /\ \E t \in LifeInstants : t > now /\ now' = t
    /\ out' = NoOut
    /\ UNCHANGED <<variant, store, nextId, isTransporterReady, rq, jobs, process>>

TickWindow ==
    /\ \E t \in WindowInstants : t > now /\ now' = t
    /\ out' = NoOut
    /\ UNCHANGED <<variant, store, nextId, isTransporterReady, rq, jobs, process>>

\* getTransporter(): transporter.verify() resolves and the transporter is ready
VerifyTransporter ==
    /\ ~isTransporterReady
    /\ isTransporterReady' = TRUE
    /\ out' = NoOut
    /\ UNCHANGED <<variant, now, store, nextId, rq, jobs, process>>

----------------------------------------------------------------------------
(* POST /listings *)

addListing(body) ==
    /\ nextId <= MaxListings
    /\ LET v == validate(body) IN
       IF v.error
       THEN /\ out' = [op |-> "create", status |-> 400]
            /\ UNCHANGED <<now, store, nextId>>
       ELSE \E t2 \in SecondRead(now), ok \in BOOLEAN :
              IF ok
              THEN LET doc == listingSchema(v.value, now, t2) IN
                   /\ store' = store @@ (nextId :> doc)
                   /\ nextId' = nextId + 1
                   /\ now' = t2
                   /\ out' = [op |-> "create", status |-> 201, id |-> nextId,
                              body |-> doc, request |-> body]
              ELSE /\ out' = [op |-> "create", status |-> 500, error |-> "StoreError"]
                   /\ UNCHANGED <<now, store, nextId>>
    /\ UNCHANGED <<variant, isTransporterReady, rq, jobs, process>>

----------------------------------------------------------------------------
(* GET /listings/:id *)

\* Listing.findById(id): a cast error for a string that is no ObjectId,
\* else the document or null
findById(p) ==
    IF ~ObjectIdIsValid(p) THEN [threw |-> TRUE, found |-> FALSE]
    ELSE [threw |-> FALSE, found |-> p.n \in DOMAIN store]

getListingById(p) ==
    /\ IF ~ObjectIdIsValid(p)
       THEN out' = [op |-> "get", status |-> 400, id |-> p]
       ELSE \E ok \in BOOLEAN :
              IF ~ok \/ findById(p).threw
              THEN out' = [op |-> "get", status |-> 500, id |-> p,
                           error |-> IF ok THEN "CastError" ELSE "StoreError"]
              ELSE IF ~findById(p).found
              THEN out' = [op |-> "get", status |-> 404, id |-> p]
              ELSE out' = [op |-> "get", status |-> 200, id |-> p, body |-> store[p.n]]
    /\ UNCHANGED <<variant, now, store, nextId, isTransporterReady, rq, jobs, process>>

----------------------------------------------------------------------------
(* POST /renew/:id, in its two steps: up to the await of findById, and    *)
(* from there to the response.                                            *)

\* Only "server" checks ObjectId.isValid(req.params.id) before the query.
checksId == variant = "server"

renewFind(p) ==
    /\ rq.phase = "none"
    /\ IF checksId /\ ~ObjectIdIsValid(p)
       THEN /\ out' = [op |-> "renew", status |-> 400, id |-> p]
            /\ rq' = NoReq
       ELSE \E ok \in BOOLEAN :
              IF ~ok \/ findById(p).threw
              THEN /\ out' = [op |-> "renew", status |-> 500, id |-> p,
                              error |-> IF findById(p).threw THEN "CastError"
                                        ELSE "StoreError"]
                   /\ rq' = NoReq
              ELSE IF ~findById(p).found
              THEN /\ out' = [op |-> "renew", status |-> 404, id |-> p]
                   /\ rq' = NoReq
              ELSE /\ rq' = [phase |-> "found", id |-> p, listing |-> store[p.n]]
                   /\ out' = NoOut
    /\ UNCHANGED <<variant, now, store, nextId, isTransporterReady, jobs, process>>

\* A renewal that extends the horizon the listing had.
renewedFromPrevious(listing, t) == listing.expirationDate + SIXTY_DAYS

\* listing.expirationDate = new Date(Date.now() + 60 days)
renewedExpiration(listing, t) == t + SIXTY_DAYS

\* A save that restarts the life of the listing: createdAt moves with the
\* new expirationDate.
savedAsNew(current, value) ==
    [current EXCEPT !.expirationDate = value, !.createdAt = value - SIXTY_DAYS]

\* What listing.save() leaves in the store: $set of the one path modified
\* since findById, expirationDate, on the stored document.
saved(current, value) == [current EXCEPT !.expirationDate = value]

\* A save that writes the whole document back, and so inserts it when it is
\* no longer in the collection.
renewSaveUpserts ==
    /\ rq.phase = "found"
    /\ \E ok \in BOOLEAN :
         IF ok
         THEN /\ store' = [i \in DOMAIN store \cup {rq.id.n} |->
                             IF i = rq.id.n
                             THEN [rq.listing EXCEPT
                                     !.expirationDate = renewedExpiration(rq.listing, now)]
                             ELSE store[i]]
              /\ out' = [op |-> "renew", status |-> 200, id |-> rq.id,
                         expirationDate |-> renewedExpiration(rq.listing, now),
                         previous |-> rq.listing.expirationDate]
         ELSE /\ store' = store
              /\ out' = [op |-> "renew", status |-> 500, id |-> rq.id,
                         error |-> "StoreError"]
    /\ rq' = NoReq
    /\ UNCHANGED <<variant, now, nextId, isTransporterReady, jobs, process>>

\* listing.save(): writes the modified path of the document found; fails
\* when the document is no longer in the collection.  `previous` is the
\* expirationDate the document held when it was found.
renewSave ==
    /\ rq.phase = "found"
    /\ \E ok \in BOOLEAN :
         IF ok /\ rq.id.n \in DOMAIN store
         THEN /\ store' = [store EXCEPT
                             ![rq.id.n] = saved(@, renewedExpiration(rq.listing, now))]
              /\ out' = [op |-> "renew", status |-> 200, id |-> rq.id,
                         expirationDate |-> renewedExpiration(rq.listing, now),
                         previous |-> rq.listing.expirationDate]
         ELSE /\ store' = store
              /\ out' = [op |-> "renew", status |-> 500, id |-> rq.id,
                         error |-> IF ok THEN "DocumentNotFoundError"
                                   ELSE "StoreError"]
    /\ rq' = NoReq
    /\ UNCHANGED <<variant, now, nextId, isTransporterReady, jobs, process>>

----------------------------------------------------------------------------
(* The expiry sweep, cron '0 0 * * *' *)

\* { expirationDate: { $lte: new Date() } }
isExpiredInclusive(listing, t) == listing.expirationDate <= t

\* { expirationDate: { $lt: new Date() } }
isExpired(listing, t) == listing.expirationDate < t

\* Whether the step before this one was a run of the sweep that deleted
\* listings (a note for the log; the sweep does not read it).
followsSweep == out.op = "deleteExpired" /\ out.outcome = "ok" /\ out.deleted # {}

\* A sweep that deletes one expired listing per run (deleteOne).
deleteOneExpired ==
    /\ \E ok \in BOOLEAN :
         IF ok
         THEN LET expired == {i \in DOMAIN store : isExpired(store[i], now)}
                  gone == IF expired = {} THEN {}
                          ELSE {CHOOSE i \in expired : \A j \in expired : i <= j}
              IN /\ store' = [i \in DOMAIN store \ gone |-> store[i]]
                 /\ out' = [op |-> "deleteExpired", status |-> 0, outcome |-> "ok",
                            deleted |-> gone, follows |-> followsSweep]
         ELSE /\ store' = store
              /\ out' = [op |-> "deleteExpired", status |-> 0, outcome |-> "error",
                         deleted |-> {}, follows |-> followsSweep]
    /\ UNCHANGED <<variant, now, nextId, isTransporterReady, rq, jobs>>
    /\ process' = afterRun(process, out')

deleteExpiredListings ==
    /\ \E ok \in BOOLEAN :
         IF ok
         THEN LET gone == {i \in DOMAIN store : isExpired(store[i], now)} IN
              /\ store' = [i \in DOMAIN store \ gone |-> store[i]]
              /\ out' = [op |-> "deleteExpired", status |-> 0, outcome |-> "ok",
                         deleted |-> gone, follows |-> followsSweep]
         ELSE /\ store' = store
              /\ out' = [op |-> "deleteExpired", status |-> 0, outcome |-> "error",
                         deleted |-> {}, follows |-> followsSweep]
    /\ UNCHANGED <<variant, now, nextId, isTransporterReady, rq, jobs>>
    /\ process' = afterRun(process, out')

----------------------------------------------------------------------------
(* The maintenance script scripts/delete_old_listings.js, run by hand *)

\* { createdAt: { $lt: cutoffDate } }, cutoffDate = Date.now() - 60 days
isOld(listing, t) == listing.createdAt < t - SIXTY_DAYS

deleteOldListings ==
    /\ \E ok \in BOOLEAN :
         IF ok
         THEN LET gone == {i \in DOMAIN store : isOld(store[i], now)} IN
              /\ store' = [i \in DOMAIN store \ gone |-> store[i]]
              /\ out' = [op |-> "deleteOld", status |-> 0, outcome |-> "ok",
                         deleted |-> gone]
         ELSE /\ store' = store
              /\ out' = [op |-> "deleteOld", status |-> 1, outcome |-> "error",
                         deleted |-> {}]
    /\ UNCHANGED <<variant, now, nextId, isTransporterReady, rq, jobs, process>>

----------------------------------------------------------------------------
(* The notification sweep, cron '0 1 * * *' and once at startup *)

\* { expirationDate: { $gt: from, $lt: to } }
inWindowAfterFrom(listing, from, to) ==
    listing.expirationDate > from /\ listing.expirationDate < to

\* { expirationDate: { $gte: from, $lt: to } }
inWindow(listing, from, to) ==
    listing.expirationDate >= from /\ listing.expirationDate < to

\* The bounds of the query.  "server" reads the clock once for each bound
\* (t1, then t2); "combined" reads it once and adds a day to the lower bound.
windowFrom(t1) == t1 + SEVEN_DAYS
windowTo(t1, t2) ==
    IF variant = "server" THEN t2 + EIGHT_DAYS ELSE windowFrom(t1) + ONE_DAY

\* isReady(), which only "server" asks before the sweep
sweepGate == variant = "combined" \/ isTransporterReady

notifyExpiringListings ==
    /\ IF ~sweepGate
       THEN /\ out' = [op |-> "notify", status |-> 0, outcome |-> "skipped",
                       selected |-> {}, sent |-> {}]
            /\ now' = now
       ELSE \E t2 \in SecondRead(now), ok \in BOOLEAN :
              /\ now' = t2
              /\ IF ~ok
                 THEN out' = [op |-> "notify", status |-> 0, outcome |-> "error",
                              selected |-> {}, sent |-> {}]
                 ELSE LET sel == {i \in DOMAIN store :
                                    inWindow(store[i], windowFrom(now), windowTo(now, t2))}
                      IN \E sent \in SUBSET sel :
                           /\ isTransporterReady \/ sent = {}
                           /\ out' = [op |-> "notify", status |-> 0, outcome |-> "ok",
                                      from |-> now, selected |-> sel, sent |-> sent]
    /\ UNCHANGED <<variant, store, nextId, isTransporterReady, rq, jobs>>
    /\ process' = afterRun(process, out')

----------------------------------------------------------------------------
(* The notification sweep step by step: a run is in progress from its call *)
(* to the end of its loop, and waits for the store (await Listing.find)    *)
(* and for the transporter (await sendExpiryEmail) in between.             *)

\* The clock while sweeps are followed over three days
JobInstants == WindowInstants \cup {SIXTY_DAYS - 6 * DAY}

TickJobs ==
    /\ \E t \in JobInstants : t > now /\ now' = t
    /\ out' = NoOut
    /\ UNCHANGED <<variant, store, nextId, isTransporterReady, rq, jobs, process>>

\* A run that has read the clock at `at` and waits for its query.  `retry`
\* notes the sends that had failed in the last daily sweep when the run
\* began (the run does not read it).
Run(kind, at, from, to, retry) ==
    [kind |-> kind, phase |-> "find", at |-> at, from |-> from, to |-> to,
     found |-> << >>, todo |-> << >>, sent |-> {}, failed |-> {}, skipped |-> {},
     retry |-> retry]

\* What a run has come to when it returns
Done(run, outcome) ==
    [op |-> "notifyDone", status |-> 0, kind |-> run.kind, outcome |-> outcome,
     at |-> run.at, retry |-> run.retry, selected |-> DOMAIN run.found,
     sent |-> run.sent, failed |-> run.failed, skipped |-> run.skipped]

Without(runs, k) == SubSeq(runs, 1, k - 1) \o SubSeq(runs, k + 1, Len(runs))

RECURSIVE inNaturalOrder(_)
\* The _ids of a result in the order the store returns them
inNaturalOrder(ids) ==
    IF ids = {} THEN << >>
    ELSE LET first == CHOOSE i \in ids : \A j \in ids : i <= j
         IN <<first>> \o inNaturalOrder(ids \ {first})

\* The log of notices: how many were sent for a listing while it had a given
\* expirationDate (a second one is the last that is counted).
noted(notices, key) ==
    IF key \in DOMAIN notices
    THEN [notices EXCEPT ![key] = 2]
    ELSE notices @@ (key :> 1)

\* notifyExpiringListings() from its call to its first await, in a process
\* whose isReady() is `ready`; `base` is the rest of the scheduler's state.
notifyStart(kind, ready, base) ==
    IF ~(variant = "combined" \/ ready)
    THEN /\ jobs' = base
         /\ out' = Done(Run(kind, now, now, now, base.failed), "skipped")
         /\ now' = now
    ELSE \E t2 \in SecondRead(now) :
           /\ now' = t2
           /\ jobs' = [base EXCEPT
                         !.runs = Append(@, Run(kind, now, windowFrom(now),
                                                windowTo(now, t2), base.failed))]
           /\ out' = [op |-> "notifyStart", status |-> 0, kind |-> kind]

\* The process starts (again): what the old process had in progress is gone,
\* getTransporter() starts verify() where the server calls it at startup, and
\* notifyExpiringListings() is called in the same synchronous block.
startProcess ==
    /\ isTransporterReady' = FALSE
    /\ rq' = NoReq
    /\ notifyStart("startup", FALSE,
                   [jobs EXCEPT !.runs = << >>,
                                !.transporter = variant = "server",
                                !.verifying = variant = "server"])
    /\ UNCHANGED <<variant, store, nextId, process>>

\* transporter.verify() settles
verifyResolves ==
    /\ jobs.verifying
    /\ \E ok \in BOOLEAN : isTransporterReady' = ok
    /\ jobs' = [jobs EXCEPT !.verifying = FALSE]
    /\ out' = NoOut
    /\ UNCHANGED <<variant, now, store, nextId, rq, process>>

\* cron.schedule('0 1 * * *'): once a day, at the tick of 01:00 (the clock
\* counts from a 01:00) or the tick after
cronNotify ==
    /\ now % DAY \in {0, 1}
    /\ now \div DAY > jobs.fired
    /\ Len(jobs.runs) < MaxRuns
    /\ notifyStart("scheduled", isTransporterReady,
                   [jobs EXCEPT !.fired = now \div DAY])
    /\ UNCHANGED <<variant, store, nextId, isTransporterReady, rq, process>>

\* The scheduler's state when run k has returned
finished(base, k, run) ==
    [base EXCEPT !.runs = Without(@, k),
                 !.failed = IF run.kind = "scheduled"
                            THEN {<<i, run.found[i]>> : i \in run.failed}
                            ELSE @]

\* await Listing.find(...).lean() of run k resolves or rejects
notifyFound(k) ==
    /\ k \in 1..Len(jobs.runs)
    /\ jobs.runs[k].phase = "find"
    /\ LET run == jobs.runs[k] IN
       \E ok \in BOOLEAN :
         IF ~ok
         THEN /\ jobs' = finished(jobs, k, run)
              /\ out' = Done(run, "error")
         ELSE LET sel == {i \in DOMAIN store : inWindow(store[i], run.from, run.to)}
                  got == [run EXCEPT !.phase = "send",
                                     !.found = [i \in sel |-> store[i].expirationDate],
                                     !.todo = inNaturalOrder(sel)]
              IN IF sel = {}
                 THEN /\ jobs' = finished(jobs, k, got)
                      /\ out' = Done(got, "ok")
                 ELSE /\ jobs' = [jobs EXCEPT !.runs[k] = got]
                      /\ out' = [op |-> "notifyFound", status |-> 0,
                                 kind |-> run.kind, retry |-> run.retry,
                                 selected |-> sel]
    /\ UNCHANGED <<variant, now, store, nextId, isTransporterReady, rq>>
    /\ process' = afterRun(process, out')

\* A loop that ends at the first send that fails.
afterSendStopsOnFailure(todo, result) ==
    IF result = "failed" THEN << >> ELSE Tail(todo)

\* for (const listing of listings) await sendExpiryEmail(listing): the loop
\* goes on to the next listing whatever sendExpiryEmail returned
afterSend(todo, result) == Tail(todo)

\* sendExpiryEmail(listing): false without a send when the transporter is
\* not ready, else true or false as sendMail resolves or rejects
sendResults == IF isTransporterReady THEN {"sent", "failed"} ELSE {"skipped"}

\* await sendExpiryEmail(listing) of run k, for the next listing of its loop
notifySend(k) ==
    /\ k \in 1..Len(jobs.runs)
    /\ jobs.runs[k].phase = "send"
    /\ LET run == jobs.runs[k]
           id == run.todo[1]
       IN \E result \in sendResults :
            LET after == [run EXCEPT
                            !.todo = afterSend(run.todo, result),
                            !.sent = IF result = "sent" THEN @ \cup {id} ELSE @,
                            !.failed = IF result = "failed" THEN @ \cup {id} ELSE @,
                            !.skipped = IF result = "skipped" THEN @ \cup {id} ELSE @]
                logged == [jobs EXCEPT
                             !.notices = IF result = "sent"
                                         THEN noted(@, <<id, run.found[id]>>) ELSE @,
                             !.verifying = @ \/ ~jobs.transporter,
                             !.transporter = TRUE]
            IN IF after.todo = << >>
               THEN /\ jobs' = finished(logged, k, after)
                    /\ out' = Done(after, "ok")
               ELSE /\ jobs' = [logged EXCEPT !.runs[k] = after]
                    /\ out' = [op |-> "notifySend", status |-> 0, kind |-> run.kind,
                               id |-> id, result |-> result]
    /\ UNCHANGED <<variant, now, store, nextId, isTransporterReady, rq>>
    /\ process' = afterRun(process, out')

NextJobs ==
    \/ TickJobs
    \/ \E body \in Bodies : addListing(body)
    \/ startProcess
    \/ verifyResolves
    \/ cronNotify
    \/ \E k \in 1..MaxRuns : notifyFound(k)
    \/ \E k \in 1..MaxRuns : notifySend(k)

SpecJobs == Init /\ [][NextJobs]_vars

----------------------------------------------------------------------------
(* POST /renew/:id, two calls in flight.  Each call takes two steps: from  *)
(* its arrival to the call of listing.save() (findById has resolved and the *)
(* new expirationDate is set on the document in memory), and from there to  *)
(* the response (the update has reached the store).  Each of the two calls  *)
(* is followed to its response once.                                        *)

Calls == {1, 2}

NoCall == [phase |-> "none", id |-> 0, seen |-> NoDate, value |-> NoDate,
           status |-> 0, raced |-> FALSE]

\* A save that fails when the document was changed since it was read
\* (optimistic concurrency).
saveChecksVersion(seen, current) == seen # current.expirationDate

\* listing.save(): updateOne({ _id }, { $set: { expirationDate } }); the
\* filter holds no version and no previous value.
saveConflicts(seen, current) == FALSE

\* The other of the two calls
otherCall(c) == CHOOSE d \in Calls : d # c

renewCallFind(c, p) ==
    /\ rq.phase = "race"
    /\ rq.calls[c].phase = "none"
    /\ IF checksId /\ ~ObjectIdIsValid(p)
       THEN /\ out' = [op |-> "renew", status |-> 400, id |-> p, call |-> c]
            /\ rq' = [rq EXCEPT !.calls[c] = NoCall]
       ELSE \E ok \in BOOLEAN :
              IF ~ok \/ findById(p).threw
              THEN /\ out' = [op |-> "renew", status |-> 500, id |-> p, call |-> c,
                              error |-> IF findById(p).threw THEN "CastError"
                                        ELSE "StoreError"]
                   /\ rq' = [rq EXCEPT !.calls[c] = NoCall]
              ELSE IF ~findById(p).found
              THEN /\ out' = [op |-> "renew", status |-> 404, id |-> p, call |-> c]
                   /\ rq' = [rq EXCEPT !.calls[c] = NoCall]
              ELSE /\ rq' = [rq EXCEPT
                               !.calls[c] =
                                  [phase |-> "save", id |-> p.n,
                                   seen |-> store[p.n].expirationDate,
                                   value |-> renewedExpiration(store[p.n], now),
                                   status |-> 0, raced |-> FALSE]]
                   /\ out' = NoOut
    /\ UNCHANGED <<variant, now, store, nextId, isTransporterReady, jobs, process>>

renewCallSave(c) ==
    /\ rq.phase = "race"
    /\ rq.calls[c].phase = "save"
    /\ LET call == rq.calls[c]
           other == rq.calls[otherCall(c)]
           raced == other.phase = "save" /\ other.id = call.id
       IN \E ok \in BOOLEAN :
            IF /\ ok
               /\ call.id \in DOMAIN store
               /\ ~saveConflicts(call.seen, store[call.id])
            THEN /\ store' = [store EXCEPT ![call.id] = saved(@, call.value)]
                 /\ out' = [op |-> "renew", status |-> 200, id |-> call.id,
                            call |-> c, expirationDate |-> call.value]
                 /\ rq' = [rq EXCEPT
                             !.calls[c] = [call EXCEPT !.phase = "done",
                                                       !.status = 200,
                                                       !.raced = raced],
                             !.order = Append(@, c)]
            ELSE /\ store' = store
                 /\ out' = [op |-> "renew", status |-> 500, id |-> call.id,
                            call |-> c,
                            error |-> IF ~ok THEN "StoreError"
                                      ELSE IF call.id \notin DOMAIN store
                                      THEN "DocumentNotFoundError"
                                      ELSE "VersionError"]
                 /\ rq' = [rq EXCEPT
                             !.calls[c] = [call EXCEPT !.phase = "done",
                                                       !.status = 500,
                                                       !.raced = raced],
                             !.order = Append(@, c)]
    /\ UNCHANGED <<variant, now, nextId, isTransporterReady, jobs, process>>

InitRace ==
    /\ variant \in {"server", "combined"}
    /\ now = 0
    /\ store = << >>
    /\ nextId = 1
    /\ isTransporterReady = FALSE
    /\ jobs = JobsAtStart
    /\ process = Serving
    /\ rq = [phase |-> "race", calls |-> [c \in Calls |-> NoCall], order |-> << >>]
    /\ out = NoOut

NextRace ==
    \/ Tick
    \/ \E body \in Bodies : addListing(body)
    \/ \E c \in Calls, p \in ParamIds : renewCallFind(c, p)
    \/ \E c \in Calls : renewCallSave(c)

SpecRace == InitRace /\ [][NextRace]_vars

----------------------------------------------------------------------------
(* The process from its start to its exit: connectMongo(), app.listen(),   *)
(* the health check, the jobs, and shutdown(signal).  The request in       *)
(* flight is a /renew/:id between its awaits.                              *)

\* The module body has run: mongoose.connect() is pending, the server
\* listens.
ProcessAtStart == [Serving EXCEPT !.mongo = "connecting"]

\* process.exit(code)
exit(proc, code) == [proc EXCEPT !.state = "exited", !.code = code]

up == process.state = "running"
listening == up /\ process.server = "listening"

\* mongoose.connection.readyState === 1; until then mongoose holds the
\* operations of the models back
connected == process.mongo = "connected"

\* connectMongo(): await mongoose.connect() resolves, or rejects and the
\* process exits
connectResolves ==
    /\ up
    /\ process.mongo = "connecting"
    /\ \E ok \in BOOLEAN :
         /\ process' = IF ok THEN [process EXCEPT !.mongo = "connected"]
                       ELSE exit(process, 1)
         /\ out' = [op |-> "process", status |-> 0, event |-> "connect", ok |-> ok]
    /\ UNCHANGED <<variant, now, store, nextId, isTransporterReady, rq, jobs>>

\* GET /health: "server" pings the database when the connection is up and
\* answers 503 'degraded' otherwise; "combined" always answers 200.
getHealth ==
    /\ \E ok \in BOOLEAN :
         LET mongodb == IF ~connected THEN "disconnected"
                        ELSE IF variant = "combined" \/ ok THEN "connected"
                        ELSE "error"
         IN out' = [op |-> "health",
                    status |-> IF variant = "combined" \/ mongodb = "connected"
                               THEN 200 ELSE 503,
                    mongodb |-> mongodb]
    /\ UNCHANGED <<variant, now, store, nextId, isTransporterReady, rq, jobs, process>>

\* shutdown(signal): server.close(callback).  A listening server stops
\* listening and calls the callback at its 'close' event; a server that no
\* longer listens calls it, at that event, with ERR_SERVER_NOT_RUNNING.
shutdown ==
    /\ up
    /\ Len(process.onClose) < MaxSignals
    /\ process' = IF process.server = "listening"
                  THEN [process EXCEPT !.server = "closing",
                                       !.onClose = Append(@, "closed")]
                  ELSE [process EXCEPT !.onClose = Append(@, "notRunning")]
    /\ out' = [op |-> "process", status |-> 0, event |-> "signal", ok |-> TRUE]
    /\ UNCHANGED <<variant, now, store, nextId, isTransporterReady, rq, jobs>>

\* The callback of server.close up to its first await: exit(1) on an
\* error, else mongoose.disconnect() is called
closeCallback(proc, err) ==
    IF err = "notRunning" THEN exit(proc, 1)
    ELSE [proc EXCEPT !.mongo = "disconnecting"]

\* The listeners of one 'close' event, called in the order they were added,
\* until one of them ends the process
RECURSIVE runListeners(_, _)
runListeners(proc, listeners) ==
    IF listeners = << >> \/ proc.state = "exited" THEN proc
    ELSE runListeners(closeCallback(proc, Head(listeners)), Tail(listeners))

\* The server emits 'close': it no longer listens and no request is in
\* flight
emitClose ==
    /\ up
    /\ process.server # "listening"
    /\ process.onClose # << >>
    /\ rq.phase = "none"
    /\ process' = [runListeners([process EXCEPT !.server = "closed"],
                                process.onClose)
                     EXCEPT !.onClose = << >>]
    /\ out' = [op |-> "process", status |-> 0, event |-> "close", ok |-> TRUE]
    /\ UNCHANGED <<variant, now, store, nextId, isTransporterReady, rq, jobs>>

\* await mongoose.disconnect() resolves or rejects; process.exit(0)
disconnectResolves ==
    /\ up
    /\ process.mongo = "disconnecting"
    /\ \E ok \in BOOLEAN :
         /\ process' = exit([process EXCEPT !.mongo = "disconnected"], 0)
         /\ out' = [op |-> "process", status |-> 0, event |-> "disconnect", ok |-> ok]
    /\ UNCHANGED <<variant, now, store, nextId, isTransporterReady, rq, jobs>>

InitProcess ==
    /\ variant \in {"server", "combined"}
    /\ now = 0
    /\ store = << >>
    /\ nextId = 1
    /\ isTransporterReady = FALSE
    /\ jobs = JobsAtStart
    /\ process = ProcessAtStart
    /\ rq = NoReq
    /\ out = NoOut

NextProcess ==
    \/ up /\ Tick
    \/ connectResolves
    \/ listening /\ getHealth
    \/ listening /\ \E body \in Bodies :
                      addListing(body) /\ (connected \/ out'.status = 400)
    \/ listening /\ \E p \in ParamIds :
                      renewFind(p) /\ (connected \/ out'.status = 400)
    \/ up /\ renewSave
    \/ up /\ connected /\ deleteExpiredListings
    \/ up /\ connected /\ notifyExpiringListings
    \/ shutdown
    \/ emitClose
    \/ disconnectResolves

SpecProcess == InitProcess /\ [][NextProcess]_vars

----------------------------------------------------------------------------
(* The listing lifecycle: create, read, renew, expire *)

Next ==
    \/ Tick
    \/ \E body \in Bodies : addListing(body)
    \/ \E p \in ParamIds : getListingById(p)
    \/ \E p \in ParamIds : renewFind(p)
    \/ renewSave
    \/ deleteExpiredListings

Spec == Init /\ [][Next]_vars

(* The lifecycle with the maintenance script run at any time *)

NextCleanup ==
    \/ Next
    \/ deleteOldListings

SpecCleanup == Init /\ [][NextCleanup]_vars

(* The notification sweep over listings as they near expiry *)

NextNotify ==
    \/ TickWindow
    \/ VerifyTransporter
    \/ \E body \in Bodies : addListing(body)
    \/ notifyExpiringListings

SpecNotify == Init /\ [][NextNotify]_vars


----------------------------------------------------------------------------
(* GET /listings?page=&limit= *)

DEFAULT_PAGE == 1
DEFAULT_LIMIT == 50
MAX_LIMIT == 100

\* A query parameter: absent, a string that does not start with a number,
\* or the decimal string of an integer.
QueryParam(ints) ==
    {[kind |-> "absent", n |-> 0], [kind |-> "text", n |-> 0]}
      \cup [kind : {"int"}, n : ints]

Queries ==
    [page : QueryParam(-1..(MaxDocs + 1)),
     limit : QueryParam((-1..MaxDocs) \cup {MAX_LIMIT - 1, MAX_LIMIT, MAX_LIMIT + 1, 500})]

\* parseInt(s): NaN unless the string is that of an integer
parseInt(v) ==
    IF v.kind = "int" THEN [nan |-> FALSE, n |-> v.n] ELSE [nan |-> TRUE, n |-> 0]

\* x || d: d when x is falsy, that is NaN or 0
orElse(x, d) == IF x.nan \/ x.n = 0 THEN d ELSE x.n

MathMax(a, b) == IF a >= b THEN a ELSE b
MathMin(a, b) == IF a <= b THEN a ELSE b

\* Math.ceil(a / b), for a >= 0 and b > 0
MathCeilDiv(a, b) == IF a % b = 0 THEN a \div b ELSE a \div b + 1

pageOf(query) == MathMax(1, orElse(parseInt(query.page), DEFAULT_PAGE))
limitOf(query) ==
    MathMin(MAX_LIMIT, MathMax(1, orElse(parseInt(query.limit), DEFAULT_LIMIT)))

\* A skip that starts one page too far.
skipPastPage(page, limit) == page * limit

\* const skip = (page - 1) * limit
skipOf(page, limit) == (page - 1) * limit

\* Listing.find().sort({ createdAt: -1 }): the _ids in an order in which
\* createdAt never increases; the store breaks ties as it likes.
sortByCreatedAtDesc ==
    LET n == Cardinality(DOMAIN store) IN
    {ord \in [1..n -> DOMAIN store] :
       /\ \A i, j \in 1..n : i # j => ord[i] # ord[j]
       /\ \A i, j \in 1..n :
            i < j => store[ord[i]].createdAt >= store[ord[j]].createdAt}

\* .skip(skip).limit(limit)
skipLimit(ord, skip, limit) ==
    SubSeq(ord, skip + 1, MathMin(skip + limit, Len(ord)))

\* The response lists the documents by their _id; `query` is the req.query
\* it answers.
getListings(query) ==
    /\ \E ok \in BOOLEAN :
         IF ~ok
         THEN out' = [op |-> "list", status |-> 500, query |-> query,
                      error |-> "StoreError"]
         ELSE LET page == pageOf(query)
                  limit == limitOf(query)
                  total == Cardinality(DOMAIN store)
              IN \E ord \in sortByCreatedAtDesc :
                   out' = [op |-> "list", status |-> 200, query |-> query,
                           listings |-> skipLimit(ord, skipOf(page, limit), limit),
                           page |-> page, limit |-> limit, total |-> total,
                           totalPages |-> MathCeilDiv(total, limit)]
    /\ UNCHANGED <<variant, now, store, nextId, isTransporterReady, rq, jobs, process>>

\* The collections that are listed: up to MaxDocs listings, created in the
\* order of their _ids at clock values that may coincide.
ValidBody == CHOOSE body \in Bodies : ~validate(body).error /\ body.createdAt = NoDate

ListStores ==
    UNION {{[i \in 1..n |-> listingSchema(ValidBody, c[i], c[i])] :
              c \in {c \in [1..n -> 0..(MaxDocs - 1)] :
                       \A i, j \in 1..n : i < j => c[i] <= c[j]}} :
           n \in 0..MaxDocs}

\* One GET /listings request, received and not yet answered, on each of
\* these collections.
InitList ==
    /\ variant \in {"server", "combined"}
    /\ store \in ListStores
    /\ now = MaxDocs
    /\ nextId = Cardinality(DOMAIN store) + 1
    /\ isTransporterReady = FALSE
    /\ jobs = JobsAtStart
    /\ process = Serving
    /\ rq \in [phase : {"list"}, query : Queries]
    /\ out = NoOut

NextList == out = NoOut /\ getListings(rq.query)

SpecList == InitList /\ [][NextList]_vars

----------------------------------------------------------------------------
(* Strings are sequences of characters.  Regular expressions: the part of  *)
(* the RegExp syntax that patterns over the characters below can use, and  *)
(* its matching under the 'i' flag.                                        *)

Letters == {"a", "A", "b"}

\* The characters that are syntax in a pattern
SyntaxCharacters ==
    {".", "*", "+", "?", "^", "$", "{", "}", "(", ")", "|", "[", "]", "\\"}

\* Characters that \b does not count as part of a word
NonWordCharacters == SyntaxCharacters \cup {" ", "!", ","}

\* Case folding of the 'i' flag
Lower(c) ==
    CASE c = "A" -> "a" [] c = "B" -> "b" [] c = "R" -> "r" [] OTHER -> c

\* The value of a one-element set.  Value({e(x) : x \in {v}}) is e(v).
Value(S) == CHOOSE v \in S : TRUE

SyntaxError == [ok |-> FALSE, node |-> [t |-> "seq", xs |-> << >>], pos |-> 0, q |-> FALSE]
Parsed(node, pos, quantifiable) ==
    [ok |-> TRUE, node |-> node, pos |-> pos, q |-> quantifiable]

RECURSIVE ParseClass(_, _, _, _)
\* [...] from position k on, up to the closing bracket
ParseClass(p, k, neg, cs) ==
    IF k > Len(p) THEN SyntaxError
    ELSE IF p[k] = "]" THEN Parsed([t |-> "set", neg |-> neg, cs |-> cs], k + 1, TRUE)
    ELSE IF p[k] = "\\"
    THEN IF k = Len(p) THEN SyntaxError
         ELSE ParseClass(p, k + 2, neg, cs \cup {p[k + 1]})
    ELSE ParseClass(p, k + 1, neg, cs \cup {p[k]})

RECURSIVE ParseDisjunction(_, _), ParseAlternative(_, _, _), ParseTerm(_, _), ParseAtom(_, _)

ParseAtom(p, i) ==
    LET c == p[i] IN
    CASE c = "\\" ->
           IF i = Len(p) THEN SyntaxError
           ELSE IF p[i + 1] = "b" THEN Parsed([t |-> "wordb", neg |-> FALSE], i + 2, FALSE)
           ELSE IF p[i + 1] = "B" THEN Parsed([t |-> "wordb", neg |-> TRUE], i + 2, FALSE)
           ELSE Parsed([t |-> "chr", c |-> p[i + 1]], i + 2, TRUE)
      [] c = "." -> Parsed([t |-> "any"], i + 1, TRUE)
      [] c = "^" -> Parsed([t |-> "bol"], i + 1, FALSE)
      [] c = "$" -> Parsed([t |-> "eol"], i + 1, FALSE)
      [] c = "(" ->
           IF i < Len(p) /\ p[i + 1] = "?" THEN SyntaxError
           ELSE Value({ IF ~r.ok \/ r.pos > Len(p) THEN SyntaxError
                        ELSE IF p[r.pos] # ")" THEN SyntaxError
                        ELSE Parsed(r.node, r.pos + 1, TRUE) :
                        r \in {ParseDisjunction(p, i + 1)} })
      [] c = "[" ->
           IF i < Len(p) /\ p[i + 1] = "^"
           THEN ParseClass(p, i + 2, TRUE, {})
           ELSE ParseClass(p, i + 1, FALSE, {})
      [] c \in {"*", "+", "?"} -> SyntaxError
      [] OTHER -> Parsed([t |-> "chr", c |-> c], i + 1, TRUE)

\* An atom and its quantifier (greedy or lazy)
ParseTerm(p, i) ==
    Value({ IF ~a.ok THEN SyntaxError
            ELSE IF a.pos > Len(p) THEN a
            ELSE IF p[a.pos] \notin {"*", "+", "?"} THEN a
            ELSE IF ~a.q THEN SyntaxError
            ELSE Parsed([t |-> "rep", x |-> a.node,
                         min |-> IF p[a.pos] = "+" THEN 1 ELSE 0,
                         many |-> p[a.pos] # "?"],
                        IF a.pos < Len(p) /\ p[a.pos + 1] = "?"
                        THEN a.pos + 2 ELSE a.pos + 1,
                        FALSE) :
            a \in {ParseAtom(p, i)} })

ParseAlternative(p, i, acc) ==
    IF i > Len(p) THEN Parsed([t |-> "seq", xs |-> acc], i, FALSE)
    ELSE IF p[i] \in {"|", ")"} THEN Parsed([t |-> "seq", xs |-> acc], i, FALSE)
    ELSE Value({ IF ~term.ok THEN SyntaxError
                 ELSE ParseAlternative(p, term.pos, Append(acc, term.node)) :
                 term \in {ParseTerm(p, i)} })

ParseDisjunction(p, i) ==
    Value({ IF ~a.ok THEN SyntaxError
            ELSE IF a.pos > Len(p) THEN a
            ELSE IF p[a.pos] # "|" THEN a
            ELSE Value({ IF ~r.ok THEN SyntaxError
                         ELSE Parsed([t |-> "alt", l |-> a.node, r |-> r.node], r.pos, FALSE) :
                         r \in {ParseDisjunction(p, a.pos + 1)} }) :
            a \in {ParseAlternative(p, i, << >>)} })

\* new RegExp(pattern, 'i'): the compiled pattern, or a SyntaxError thrown
RegExp(pattern) ==
    Value({ IF r.ok /\ r.pos = Len(pattern) + 1 THEN r ELSE SyntaxError :
            r \in {ParseDisjunction(pattern, 1)} })

IsWordAt(str, k) == k >= 1 /\ k <= Len(str) /\ str[k] \notin NonWordCharacters

RECURSIVE Ends(_, _, _), SeqEnds(_, _, _, _), Closure(_, _, _)

\* The positions at which a match of node n that starts after str[i] can end
Ends(n, str, i) ==
    CASE n.t = "chr" ->
           IF i < Len(str) /\ Lower(str[i + 1]) = Lower(n.c) THEN {i + 1} ELSE {}
      [] n.t = "any" -> IF i < Len(str) THEN {i + 1} ELSE {}
      [] n.t = "set" ->
           IF i < Len(str) /\ ((\E c \in n.cs : Lower(c) = Lower(str[i + 1])) # n.neg)
           THEN {i + 1} ELSE {}
      [] n.t = "bol" -> IF i = 0 THEN {i} ELSE {}
      [] n.t = "eol" -> IF i = Len(str) THEN {i} ELSE {}
      [] n.t = "wordb" ->
           IF (IsWordAt(str, i) # IsWordAt(str, i + 1)) # n.neg THEN {i} ELSE {}
      [] n.t = "seq" -> SeqEnds(n.xs, 1, str, {i})
      [] n.t = "alt" -> Ends(n.l, str, i) \cup Ends(n.r, str, i)
      [] n.t = "rep" ->
           IF ~n.many THEN {i} \cup Ends(n.x, str, i)
           ELSE IF n.min = 0 THEN Closure(n.x, str, {i})
           ELSE Closure(n.x, str, Ends(n.x, str, i))

SeqEnds(xs, k, str, from) ==
    IF k > Len(xs) THEN from
    ELSE SeqEnds(xs, k + 1, str, UNION {Ends(xs[k], str, j) : j \in from})

Closure(x, str, from) ==
    Value({ IF more = from THEN from ELSE Closure(x, str, more) :
            more \in {from \cup UNION {Ends(x, str, j) : j \in from}} })

\* regex.test(str): the pattern matches somewhere in str
RegExpTest(regex, str) == \E i \in 0..Len(str) : Ends(regex.node, str, i) # {}

----------------------------------------------------------------------------
(* POST /listings/search *)

SEARCH_LIMIT == 100

\* The character class of the escaping replace: [.*+?^${}()|[\]\\]
EscapedCharacters ==
    {".", "*", "+", "?", "^", "$", "{", "}", "(", ")", "|", "[", "]", "\\"}

RECURSIVE escapeFrom(_, _)
escapeFrom(q, k) ==
    IF k > Len(q) THEN << >>
    ELSE (IF q[k] \in EscapedCharacters THEN <<"\\", q[k]>> ELSE <<q[k]>>)
           \o escapeFrom(q, k + 1)

\* A query used as a pattern as it is.
unescapedQuery(q) == q

\* q.replace(/[.*+?^${}()|[\]\\]/g, '\\$&')
escapedQuery(q) == escapeFrom(q, 1)

\* { field: regex }: the field is there and the pattern matches in it
fieldMatches(regex, field) == field # NoText /\ RegExpTest(regex, field)

\* A filter that leaves the keywords out.
matchesWithoutKeywords(regex, listing) ==
    \/ fieldMatches(regex, listing.name)
    \/ fieldMatches(regex, listing.address)
    \/ fieldMatches(regex, listing.location)

\* { $or: [{ name: regex }, { address: regex }, { location: regex },
\*         { keywords: regex }] }; an array field matches when an element does
matchesFilter(regex, listing) ==
    \/ fieldMatches(regex, listing.name)
    \/ fieldMatches(regex, listing.address)
    \/ fieldMatches(regex, listing.location)
    \/ \E k \in 1..Len(listing.keywords) : fieldMatches(regex, listing.keywords[k])

RECURSIVE find(_, _, _)
\* Listing.find(filter): the documents with an _id in lo..hi that match, in
\* the collection's natural order (that of the _ids)
find(regex, lo, hi) ==
    IF lo > hi THEN << >>
    ELSE IF lo = hi
    THEN IF lo \in DOMAIN store /\ matchesFilter(regex, store[lo]) THEN <<lo>> ELSE << >>
    ELSE find(regex, lo, (lo + hi) \div 2) \o find(regex, (lo + hi) \div 2 + 1, hi)

\* .limit(n): the first n of them
limitTo(found, n) == SubSeq(found, 1, MathMin(n, Len(found)))

\* The response lists the documents by their _id.
searchListings(q) ==
    /\ IF q = << >>
       THEN out' = [op |-> "search", status |-> 200, listings |-> << >>, query |-> q]
       ELSE \E pattern \in {escapedQuery(q)} :
            \E regex \in {RegExp(pattern)} :
            \E ok \in BOOLEAN :
              IF ~regex.ok \/ ~ok
              THEN out' = [op |-> "search", status |-> 500, query |-> q,
                           error |-> IF regex.ok THEN "StoreError" ELSE "SyntaxError"]
              ELSE out' = [op |-> "search", status |-> 200, query |-> q,
                           listings |-> limitTo(find(regex, 1, nextId - 1), SEARCH_LIMIT)]
    /\ UNCHANGED <<variant, now, store, nextId, isTransporterReady, rq, jobs, process>>

\* The listings that are searched, and `count` of them one after the other
SearchDocs ==
    { [name |-> <<"a", "b">>, email |-> <<"e">>, address |-> NoText,
       location |-> NoText, keywords |-> << >>],
      [name |-> <<"n">>, email |-> <<"e">>, address |-> <<"(", "a", ")">>,
       location |-> NoText, keywords |-> << <<"n">>, <<"A", "b">> >>],
      [name |-> <<"n">>, email |-> <<"e">>, address |-> NoText,
       location |-> <<"b">>, keywords |-> << <<"a", ".">> >>] }

SearchCounts == {0, 1, SEARCH_LIMIT, SEARCH_LIMIT + 1}

SearchQueries ==
    { << >>, <<"a">>, <<"A", "B">>, <<"b">>, <<"(", "a">>, <<"a", ".">>, <<".">>, <<"n", "a">> }

SearchStores ==
    { [i \in 1..(c1 + c2) |->
         listingSchema([(IF i <= c1 THEN d1 ELSE d2) EXCEPT !.email = <<"e">>]
                         @@ [createdAt |-> NoDate, expirationDate |-> NoDate], 0, 0)] :
      <<d1, c1, d2, c2>> \in SearchDocs \X SearchCounts \X SearchDocs \X SearchCounts }

\* One POST /listings/search request, received and not yet answered, on each
\* of these collections.
InitSearch ==
    /\ variant \in {"server", "combined"}
    /\ store \in SearchStores
    /\ now = 0
    /\ nextId = Cardinality(DOMAIN store) + 1
    /\ isTransporterReady = FALSE
    /\ jobs = JobsAtStart
    /\ process = Serving
    /\ rq \in [phase : {"search"}, q : SearchQueries]
    /\ out = NoOut

NextSearch == out = NoOut /\ searchListings(rq.q)

SpecSearch == InitSearch /\ [][NextSearch]_vars

(* The same request for every short query, on a collection of one listing *)
(* whose address is the text that is searched.                            *)

RECURSIVE Strings(_, _)
\* The strings over `alphabet` of length 1..n
Strings(alphabet, n) ==
    IF n = 0 THEN {}
    ELSE {<<c>> : c \in alphabet} \cup
         {Append(w, c) : <<w, c>> \in Strings(alphabet, n - 1) \X alphabet}

ExampleQuery == <<"3", "B", "R", " ", "(", "u", "p", "d", "a", "t", "e", "d", ")">>

EscapeQueries == Strings(Letters \cup SyntaxCharacters, MaxQueryLen) \cup {ExampleQuery}

SwapCase(w) ==
    [k \in 1..Len(w) |->
       CASE w[k] = "a" -> "A" [] w[k] = "A" -> "a" [] w[k] = "B" -> "b" [] OTHER -> w[k]]

\* The texts a query is searched in: texts that hold it, and texts over the
\* letters that need not.
TextsFor(q) ==
    {q, SwapCase(q), <<"b">> \o q \o <<"!">>, <<"3", "B", "R", " ", "u", "p", "d", "a", "t", "e", "d">>}
      \cup Strings({"a", "b"}, 2)

InitEscape ==
    /\ variant \in {"server", "combined"}
    /\ \E q \in EscapeQueries : \E text \in TextsFor(q) :
         /\ rq = [phase |-> "search", q |-> q]
         /\ store = (1 :> listingSchema(
                       [name |-> <<"n">>, email |-> <<"e">>, address |-> text,
                        location |-> NoText, keywords |-> << >>,
                        createdAt |-> NoDate, expirationDate |-> NoDate], 0, 0))
    /\ now = 0
    /\ nextId = 2
    /\ isTransporterReady = FALSE
    /\ jobs = JobsAtStart
    /\ process = Serving
    /\ out = NoOut

SpecEscape == InitEscape /\ [][NextSearch]_vars

----------------------------------------------------------------------------
(* Properties of the listing lifecycle *)

\* A well-formed identifier: a string of 24 hexadecimal digits.
WellFormedId(p) == p.fmt = "hex24"

\* C1: every listing that POST /listings stores has createdAt equal to the
\* clock at creation and expirationDate 60 days after createdAt, or one
\* clock tick more when the clock ticks between the two defaults.
C1_CreationSetsExpiry ==
    [][out'.op = "create" /\ out'.status = 201 =>
         LET l == store'[out'.id] IN
         /\ out'.id \notin DOMAIN store
         /\ l.createdAt = now
         /\ l.expirationDate - l.createdAt \in {SIXTY_DAYS, SIXTY_DAYS + 1}]_vars

\* A listing has just been created while the clock ticked between the two
\* defaults.
C1_Witness ==
    /\ out.op = "create" /\ out.status = 201
    /\ store[out.id].expirationDate - store[out.id].createdAt = SIXTY_DAYS + 1
    /\ store[out.id].createdAt = now - 1

\* C2: a renewal that succeeds at clock value now leaves the listing with
\* expirationDate = now + 60 days, whatever expirationDate it had, and so
\* more than 7 days from expiry.
C2_RenewalResetsExpiry ==
    [][out'.op = "renew" /\ out'.status = 200 =>
         LET l == store'[out'.id.n] IN
         /\ out'.id.n \in DOMAIN store
         /\ l.expirationDate = now + SIXTY_DAYS
         /\ now' = now
         /\ l.expirationDate - now' > SEVEN_DAYS]_vars

\* A listing that had expired and was not yet swept has just been renewed.
C2_Witness ==
    /\ out.op = "renew" /\ out.status = 200
    /\ out.previous < now
    /\ store[out.id.n].expirationDate = now + SIXTY_DAYS

\* C3: an expiry sweep whose deleteMany succeeds at clock value now removes
\* the listings with expirationDate < now and leaves every other listing,
\* those with expirationDate = now included, as it was.
C3_SweepRemovesExactlyExpired ==
    [][out'.op = "deleteExpired" /\ out'.outcome = "ok" =>
         /\ DOMAIN store' = {i \in DOMAIN store : store[i].expirationDate >= now}
         /\ \A i \in DOMAIN store' : store'[i] = store[i]
         /\ out'.deleted = DOMAIN store \ DOMAIN store']_vars

\* A sweep has just removed a listing and kept one whose expirationDate is
\* the clock value of the sweep.
C3_Witness ==
    /\ out.op = "deleteExpired" /\ out.outcome = "ok"
    /\ out.deleted # {}
    /\ \E i \in DOMAIN store : store[i].expirationDate = now

\* C5 as claimed: POST /renew/:id answers 400 to an id that is no ObjectId
\* and 404 to an ObjectId that is not in the collection (when the store
\* answers the query), and changes no listing in either case.
C5_RenewIdErrors ==
    [][out'.op = "renew" =>
         LET p == out'.id IN
         /\ ~WellFormedId(p) => out'.status = 400 /\ store' = store
         /\ WellFormedId(p) /\ p.n \notin DOMAIN store =>
              /\ store' = store
              /\ out'.status = 404 \/ (out'.status = 500 /\ out'.error = "StoreError")]_vars

\* C6: GET /listings/:id answers 400 to an id that is no ObjectId; for an
\* ObjectId, when the store answers the query, 200 with the stored listing
\* if it is in the collection and 404 if it is not; it never changes the
\* collection.
C6_GetByIdContract ==
    [][out'.op = "get" =>
         LET p == out'.id IN
         /\ store' = store
         /\ ~WellFormedId(p) => out'.status = 400
         /\ WellFormedId(p) /\ out'.status # 500 =>
              IF p.n \in DOMAIN store
              THEN out'.status = 200 /\ out'.body = store[p.n]
              ELSE out'.status = 404
         /\ out'.status = 500 => WellFormedId(p) /\ out'.error = "StoreError"]_vars

\* A listing that an expiry sweep removed has just been asked for and was
\* not found.
C6_Witness ==
    /\ out.op = "get" /\ out.status = 404
    /\ out.id.n >= 1 /\ out.id.n < nextId
    /\ out.id.n \notin DOMAIN store

\* C15: expirationDate is written by a successful create and a successful
\* renew only, and each writes the clock value it read plus 60 days: a step
\* that is neither leaves every listing's expirationDate as it was, and a
\* create stores its own clock reads whatever createdAt and expirationDate
\* the request body carries.  So every listing's expirationDate is the time
\* of its most recent create or renew plus 60 days.
C15_ExpiryOnlyFromCreateOrRenew ==
    [][\A i \in DOMAIN store' :
         IF out'.op = "create" /\ out'.status = 201 /\ out'.id = i
         THEN /\ i \notin DOMAIN store
              /\ store'[i].createdAt = now
              /\ store'[i].expirationDate = now' + SIXTY_DAYS
              /\ now' \in {now, now + 1}
         ELSE IF out'.op = "renew" /\ out'.status = 200 /\ out'.id.n = i
         THEN store'[i].expirationDate = now + SIXTY_DAYS /\ now' = now
         ELSE i \in DOMAIN store /\ store'[i].expirationDate = store[i].expirationDate
                                /\ store'[i].createdAt = store[i].createdAt]_vars

C15_Witness ==
    /\ out.op = "create" /\ out.status = 201
    /\ out.request.expirationDate = 0 /\ out.request.createdAt = 0
    /\ now > 0
    /\ store[out.id].createdAt > 0
    /\ store[out.id].expirationDate = now + SIXTY_DAYS

\* C16 as claimed: no step removes a listing whose expirationDate is in the
\* future, be it a create, a renew, an expiry sweep or a run of the
\* maintenance script.
C16_NeverRemovedBeforeExpiry ==
    [][\A i \in DOMAIN store :
         store[i].expirationDate > now' => i \in DOMAIN store']_vars

\* C19: deletion is terminal.  An _id that was assigned and is no longer in
\* the store never comes back: the only _id a step adds is a fresh one, and a
\* renew whose listing was deleted between its find and its save fails and
\* writes nothing; a get of a deleted listing that is answered says 404.
C19_DeletionIsTerminal ==
    [][/\ \A i \in 1..(nextId - 1) : i \notin DOMAIN store => i \notin DOMAIN store'
       /\ nextId' >= nextId
       /\ \A i \in DOMAIN store' : i < nextId'
       /\ (out'.op = "renew" /\ rq.phase = "found" /\ rq.id.n \notin DOMAIN store
             => store' = store)
       /\ (out'.op = "get" /\ WellFormedId(out'.id) /\ out'.id.n \notin DOMAIN store
             => out'.status \in {404, 500} /\ store' = store)]_vars

C19_Witness ==
    /\ out.op = "renew" /\ out.status = 500
    /\ out.error = "DocumentNotFoundError"
    /\ out.id.n < nextId /\ out.id.n \notin DOMAIN store

----------------------------------------------------------------------------
(* Properties of the notification sweep *)

\* C4 as claimed: a sweep that starts at clock value now selects exactly the
\* listings with now + 7 days <= expirationDate < now + 8 days.
C4_WindowExact ==
    [][out'.op = "notify" /\ out'.outcome = "ok" =>
         out'.selected = {i \in DOMAIN store :
                            /\ store[i].expirationDate >= now + SEVEN_DAYS
                            /\ store[i].expirationDate < now + EIGHT_DAYS}]_vars

\* C4, amended: a sweep that reads the clock first at t1 and last at t2, at
\* most one tick later, selects exactly the listings with
\* t1 + 7 days <= expirationDate < t2 + 8 days; so it selects every listing
\* in [t1 + 7 days, t1 + 8 days), none before t1 + 7 days and none after
\* t1 + 8 days, and it selects a listing 7.5 days from expiry and none that
\* is 6.9 or 8.1 days from expiry.
C4_WindowWithinTick ==
    [][out'.op = "notify" /\ out'.outcome = "ok" =>
         /\ now' \in {now, now + 1}
         /\ \A i \in DOMAIN store :
              LET e == store[i].expirationDate IN
              /\ e >= now + SEVEN_DAYS /\ e < now + EIGHT_DAYS => i \in out'.selected
              /\ i \in out'.selected => e >= now + SEVEN_DAYS /\ e < now' + EIGHT_DAYS
              /\ e = now + (15 * DAY) \div 2 => i \in out'.selected
              /\ e = now + (69 * DAY) \div 10 => i \notin out'.selected
              /\ e = now + (81 * DAY) \div 10 => i \notin out'.selected
         /\ out'.selected \subseteq DOMAIN store
         /\ store' = store]_vars

\* A sweep has just selected a listing 7.5 days from expiry.
C4_Witness ==
    /\ out.op = "notify" /\ out.outcome = "ok"
    /\ \E i \in out.selected :
         store[i].expirationDate = out.from + (15 * DAY) \div 2

\* C13 as claimed: a notification sweep that starts while the transporter is
\* not ready is skipped as a whole: it selects no listing, sends nothing and
\* returns normally.
C13_SkippedWhenNotReady ==
    [][out'.op = "notify" /\ ~isTransporterReady =>
         out'.selected = {} /\ out'.sent = {}]_vars

\* C12: a send that fails does not stop the sweep.  A run that got its
\* listings from the store returns normally, and by then sendExpiryEmail was
\* called once for every listing selected, whatever the earlier calls
\* returned; only a failed query ends a run with an error, before any send.
C12_SendFailureIsolated ==
    [][out'.op = "notifyDone" =>
         /\ out'.outcome \in {"ok", "error", "skipped"}
         /\ out'.outcome = "ok" =>
              /\ out'.sent \cup out'.failed \cup out'.skipped = out'.selected
              /\ out'.sent \cap out'.failed = {}
              /\ out'.sent \cap out'.skipped = {}
              /\ out'.failed \cap out'.skipped = {}
         /\ out'.outcome # "ok" =>
              out'.selected = {} /\ out'.sent = {} /\ out'.failed = {}]_vars

C12_Witness ==
    /\ out.op = "notifyDone" /\ out.outcome = "ok"
    /\ \E a \in out.failed, b \in out.sent : a < b

\* C14 as claimed: the run of the sweep at process start sends a notice for
\* every listing whose expirationDate is in [now + 7 days, now + 8 days) at
\* that time.
C14_StartupRunSends ==
    [][out'.op = "notifyDone" /\ out'.kind = "startup" =>
         \A i \in DOMAIN store :
           store[i].expirationDate >= out'.at + SEVEN_DAYS
             /\ store[i].expirationDate < out'.at + EIGHT_DAYS
           => i \in out'.sent]_vars

\* C17 as claimed: while a listing keeps its expirationDate (no create or
\* renew in between), at most one notice is sent for it.
C17_NotifiedAtMostOnce ==
    \A key \in DOMAIN jobs.notices : jobs.notices[key] <= 1

\* C18 as claimed: a listing whose send failed in a daily sweep, and that was
\* neither renewed nor deleted since, is selected by the next daily sweep
\* (the one that begins after that sweep has ended).
C18_FailedSendRetriedNextDay ==
    [][out'.op \in {"notifyFound", "notifyDone"} /\ out'.kind = "scheduled"
         /\ (out'.op = "notifyDone" => out'.outcome = "ok") =>
         \A key \in out'.retry :
           key[1] \in DOMAIN store /\ store[key[1]].expirationDate = key[2]
             => key[1] \in out'.selected]_vars

\* C20 as claimed: at most one run of the notification sweep is in progress
\* at any time.
C20_NoOverlappingRuns == Len(jobs.runs) <= 1

----------------------------------------------------------------------------
(* Properties of GET /listings *)

\* C7 as claimed: every integer page and limit is clamped, page to
\* max(1, page) and limit to min(100, max(1, limit)); the defaults, page 1
\* and limit 50, are used only for a parameter that is absent or no number.
C7_PaginationClamped ==
    [][out'.op = "list" /\ out'.status = 200 =>
         LET query == out'.query IN
         /\ out'.page = IF query.page.kind = "int"
                        THEN MathMax(1, query.page.n) ELSE 1
         /\ out'.limit = IF query.limit.kind = "int"
                         THEN MathMin(100, MathMax(1, query.limit.n)) ELSE 50]_vars

\* The listings that come before listing i in every order by createdAt
\* descending, and those that come before it in some such order.
StrictlyNewer(i) == {k \in DOMAIN store : store[k].createdAt > store[i].createdAt}
NotOlder(i) == {k \in DOMAIN store : store[k].createdAt >= store[i].createdAt}

\* C8: GET /listings answers with the listings at positions
\* [(page-1)*limit, page*limit) of the collection ordered by createdAt
\* descending, for the page and limit it reports (the ones asked for when
\* page >= 1 and 1 <= limit <= 100), with total the size of the collection
\* and totalPages = ceil(total/limit); past the end the list is empty.
C8_ListWindow ==
    [][out'.op = "list" /\ out'.status = 200 =>
         LET query == out'.query
             page == out'.page
             limit == out'.limit
             total == Cardinality(DOMAIN store)
             skip == (page - 1) * limit
             got == out'.listings
         IN /\ query.page.kind = "int" /\ query.page.n >= 1 => page = query.page.n
            /\ query.limit.kind = "int" /\ query.limit.n >= 1 /\ query.limit.n <= 100
                 => limit = query.limit.n
            /\ page >= 1 /\ limit >= 1
            /\ out'.total = total
            /\ (out'.totalPages - 1) * limit < total /\ total <= out'.totalPages * limit
            /\ Len(got) = IF skip >= total THEN 0
                          ELSE IF total - skip < limit THEN total - skip ELSE limit
            /\ \A k \in 1..Len(got) :
                 /\ got[k] \in DOMAIN store
                 /\ Cardinality(StrictlyNewer(got[k])) <= skip + k - 1
                 /\ Cardinality(NotOlder(got[k])) >= skip + k
            /\ \A k, m \in 1..Len(got) : k # m => got[k] # got[m]
            /\ store' = store]_vars

\* The second page of a collection of three, two to a page, has just been
\* sent.
C8_Witness ==
    /\ out.op = "list" /\ out.status = 200
    /\ out.page = 2 /\ out.limit = 2 /\ out.total = 3
    /\ Len(out.listings) = 1

----------------------------------------------------------------------------
(* Properties of POST /listings/search *)

\* The characters the specification names as metacharacters
Metacharacters ==
    {".", "*", "+", "?", "(", ")", "[", "]", "{", "}", "|", "^", "$", "\\"}

\* text contains q as a substring, letters compared without their case
ContainsIgnoringCase(text, q) ==
    \E i \in 0..(Len(text) - Len(q)) :
      \A k \in 1..Len(q) : Lower(text[i + k]) = Lower(q[k])

ListingContains(listing, q) ==
    \/ ContainsIgnoringCase(listing.name, q)
    \/ ContainsIgnoringCase(listing.address, q)
    \/ ContainsIgnoringCase(listing.location, q)
    \/ \E k \in 1..Len(listing.keywords) : ContainsIgnoringCase(listing.keywords[k], q)

Matching(q) == {i \in DOMAIN store : ListingContains(store[i], q)}

\* C9: a search for a non-empty q that answers returns only listings whose
\* name, address, location or one of whose keywords contains q as a
\* case-insensitive substring, each once; it returns all of them when at most
\* 100 listings match, and never more than 100.
C9_SearchReturnsMatches ==
    out.op = "search" /\ out.status = 200 /\ out.query # << >> =>
      LET got == out.listings
          all == Matching(out.query)
      IN /\ \A k \in 1..Len(got) : got[k] \in all
         /\ \A j, k \in 1..Len(got) : got[j] = got[k] => j = k
         /\ Cardinality(all) <= 100 => {got[k] : k \in 1..Len(got)} = all
         /\ Len(got) <= 100

C9_Witness ==
    /\ out.op = "search" /\ out.status = 200
    /\ Len(out.listings) = 100
    /\ Cardinality(Matching(out.query)) = 101
    /\ \E i \in DOMAIN store : i \notin Matching(out.query)

\* The pattern that is the query taken literally, character by character
LiteralPattern(q) ==
    [t |-> "seq", xs |-> [k \in 1..Len(q) |-> [t |-> "chr", c |-> q[k]]]]

\* C10: for every non-empty query, metacharacters included, the pattern the
\* search builds compiles, and compiles to the query taken literally (every
\* metacharacter in it is escaped); a search never fails on building the
\* pattern, and it returns a listing exactly when a field of the listing
\* contains the query as a literal substring, case aside.
C10_QueryIsLiteral ==
    /\ rq.phase = "search" /\ rq.q # << >> =>
         LET pattern == escapedQuery(rq.q)
             regex == RegExp(pattern)
         IN /\ regex.ok
            /\ regex.node = LiteralPattern(rq.q)
            /\ Len(pattern) = Len(rq.q) + Cardinality({k \in 1..Len(rq.q) : rq.q[k] \in Metacharacters})
    /\ out.op = "search" /\ out.query # << >> =>
         /\ out.status = 500 => out.error = "StoreError"
         /\ out.status = 200 =>
              \A i \in DOMAIN store :
                (\E k \in 1..Len(out.listings) : out.listings[k] = i)
                  <=> ListingContains(store[i], out.query)

C10_Witness ==
    /\ out.op = "search" /\ out.status = 200
    /\ out.query = <<"3", "B", "R", " ", "(", "u", "p", "d", "a", "t", "e", "d", ")">>
    /\ out.listings = <<1>>
    /\ Len(store[1].address) > Len(out.query)

----------------------------------------------------------------------------
\* C21: when two renewals of one listing interleave (both have read the
\* listing before either save reaches the store), each save that reaches a
\* store that answers succeeds, the set of listings is unchanged, and the
\* stored expirationDate is the value of the save that reached the store
\* last.
C21_LastWriteWins ==
    [][\A c \in Calls :
         rq.phase = "race" /\ rq.calls[c].phase = "save"
           /\ rq'.calls[c].phase = "done" =>
         LET call == rq.calls[c] IN
         /\ (call.id \in DOMAIN store /\ out'.status # 200 =>
               out'.error = "StoreError")
         /\ (out'.status = 200 =>
               /\ DOMAIN store' = DOMAIN store
               /\ store'[call.id].expirationDate = call.value
               /\ \A d \in Calls :
                    rq'.calls[d].phase = "done" /\ rq'.calls[d].status = 200
                      /\ rq'.calls[d].id = call.id /\ d # c =>
                      rq'.order[Len(rq'.order)] = c)]_vars

\* Both calls had read listing 1 before either saved, both were answered 200,
\* call 1 saved last, and the store holds its value although call 2 had
\* computed a later one.
C21_Witness ==
    /\ rq.phase = "race"
    /\ rq.order = <<2, 1>>
    /\ \A c \in Calls : rq.calls[c].phase = "done" /\ rq.calls[c].status = 200
                          /\ rq.calls[c].id = 1
    /\ rq.calls[2].raced
    /\ rq.calls[1].value < rq.calls[2].value
    /\ 1 \in DOMAIN store
    /\ store[1].expirationDate = rq.calls[1].value
    /\ out.op = "renew" /\ out.status = 200 /\ out.call = 1

----------------------------------------------------------------------------
\* C22: a run of the expiry sweep or of the notification sweep that fails
\* leaves the store and the process as they were: the process runs on, and
\* a sweep that runs right after the failed one deletes what has expired.
C22_JobFailureCaught ==
    [][/\ failedRun(out') =>
            /\ store' = store
            /\ process' = process
            /\ process'.state = "running"
       /\ failedRun(out) /\ out'.op = "deleteExpired" /\ out'.outcome = "ok" =>
            /\ out'.deleted = {i \in DOMAIN store : isExpired(store[i], now)}
            /\ DOMAIN store' = DOMAIN store \ out'.deleted]_vars

\* A run of the expiry sweep has just failed while a listing had expired:
\* the listing is still stored, and the process runs, connected and
\* listening.
C22_Witness ==
    /\ failedRun(out)
    /\ out.op = "deleteExpired"
    /\ \E i \in DOMAIN store : isExpired(store[i], now)
    /\ process.state = "running"
    /\ process.mongo = "connected"
    /\ process.server = "listening"

\* C24 as claimed: a connection attempt that fails at boot ends the process,
\* and no request is answered while the initial connection has not
\* succeeded.
C24_NoServingBeforeConnected ==
    [][/\ out'.op = "process" /\ out'.event = "connect" /\ ~out'.ok =>
            process'.state = "exited"
       /\ out'.op \in {"create", "get", "renew", "health"} /\ out'.status # 0 =>
            process.mongo # "connecting"]_vars

\* C25 as claimed: the connection is taken down only once the server has
\* closed with no request in flight, and a process that exits after its
\* server has closed has finished its disconnect attempt.
C25_DrainThenDisconnectThenExit ==
    /\ process.mongo \in {"disconnecting", "disconnected"} =>
         process.server = "closed" /\ rq.phase = "none"
    /\ process.state = "exited" /\ process.server = "closed" =>
         process.mongo = "disconnected"

----------------------------------------------------------------------------
\* C23: no step changes the createdAt of a stored listing; the only step
\* that changes a stored listing is a renewal answered 200, which changes
\* the expirationDate of the listing renewed and nothing else; create adds
\* a listing and the sweep removes listings, and both leave every other
\* listing as it was.
C23_RenewChangesOnlyExpiry ==
    [][\A i \in DOMAIN store \cap DOMAIN store' :
         /\ store'[i].createdAt = store[i].createdAt
         /\ store'[i] # store[i] =>
              /\ out'.op = "renew" /\ out'.status = 200 /\ out'.id.n = i
              /\ store'[i] = [store[i] EXCEPT
                                !.expirationDate = out'.expirationDate]
              /\ \A j \in DOMAIN store : j # i =>
                   j \in DOMAIN store' /\ store'[j] = store[j]]_vars

\* Listing 1 was renewed a week before its expiry while listing 2 is stored:
\* its expirationDate moved, its createdAt is the time of its creation.
C23_Witness ==
    /\ out.op = "renew" /\ out.status = 200 /\ out.id.n = 1
    /\ DOMAIN store = {1, 2}
    /\ store[1].expirationDate = now + SIXTY_DAYS
    /\ store[1].expirationDate # out.previous
    /\ store[1].createdAt = 0
    /\ now = SIXTY_DAYS - SEVEN_DAYS

====
